---- MODULE Spec2Model ----
(***************************************************************************)
(* Model of the Gravitino python client's value objects:                   *)
(*   gravitino/api/decimal.py                  (Decimal)                   *)
(*   gravitino/api/expressions/transforms.py   (Transforms and variants)   *)
(***************************************************************************)
EXTENDS Integers, Sequences, FiniteSets, TLC

\* EMPTY_PARTITIONS is the list object of Partitions.EMPTY_PARTITIONS, which
\* every caller of the default assignments() is handed
VARIABLES call, o1, o2, ret, EMPTY_PARTITIONS

vars == <<call, o1, o2, ret, EMPTY_PARTITIONS>>

(***************************************************************************)
(* Bounds of the model.                                                    *)
(***************************************************************************)
\* longest digit string of a decimal literal given to Decimal.of
MaxDigits == 3
\* largest explicit precision / scale a caller passes
MaxPrecision == 4
MaxScale == 3
\* digits the literals are written with: round-down (4), tie (5), carry (9)
Digits == {0, 4, 5, 9}
\* longest digit string, and the digits, of the literals of the Decimals
\* that are compared
MaxEqDigits == 1
EqDigits == {0, 4, 5}
\* longest field path, and most path segments in one bucket / list call
MaxSegs == 2
\* most arguments of one Transforms.apply call
MaxArgs == 2
\* most partitions callers append to a list assignments() returned
MaxAppends == 1
\* field-name segments, bucket counts, truncate widths, partitions,
\* function names and argument expressions the callers use
Names == {"x", "y"}
BucketCounts == {2, 4}
Widths == {4, 8}
PartitionLists == {<<"p1", "p2">>}
AppendedPartitions == {"p3"}
FunctionNames == {"f", "g"}
Expressions == {"1", "x"}

(***************************************************************************)
(* Python values.  None and an absent attribute are the empty tuple, a     *)
(* present value v is <<v>>.                                               *)
(***************************************************************************)
None == <<>>
Some(v) == <<v>>
IsNone(x) == x = <<>>
Get(x) == x[1]

RECURSIVE Pow10(_)
Pow10(n) == IF n <= 0 THEN 1 ELSE 10 * Pow10(n - 1)

\* len(str(n)) for a non-negative int
RECURSIVE NumDigits(_)
NumDigits(n) == IF n < 10 THEN 1 ELSE 1 + NumDigits(n \div 10)

\* int(s) for a string of decimal digits
RECURSIVE IntOfDigits(_)
IntOfDigits(ds) ==
    IF ds = <<>> THEN 0
    ELSE 10 * IntOfDigits(SubSeq(ds, 1, Len(ds) - 1)) + ds[Len(ds)]

(***************************************************************************)
(* decimal.Decimal of the standard library, as the triple                  *)
(* (sign, coefficient, exponent) that as_tuple() exposes.                  *)
(***************************************************************************)
\* PyDecimal(str): a literal is its sign, its digit string and the number
\* of digits after the point; leading zeros vanish in the coefficient.
PyDecimal(lit) ==
    [sign |-> IF lit.neg THEN 1 ELSE 0,
     int  |-> IntOfDigits(lit.digits),
     exp  |-> -lit.frac]

\* a derivation that counts the integer-part digits only
LenDigitsIntegerPart(v) == v.exp + NumDigits(v.int)

\* len(value.as_tuple().digits)
LenDigits(v) == NumDigits(v.int)

\* value.adjusted()
Adjusted(v) == v.exp + NumDigits(v.int) - 1

\* ROUND_HALF_DOWN in place of ROUND_HALF_UP: a tie is dropped
RoundHalfDown(int, prec) ==
    LET len  == NumDigits(int)
        unit == Pow10(len - prec)
        rest == int % unit
    IN  IF 2 * rest > unit THEN 1
        ELSE IF rest = 0 THEN 0 ELSE -1

\* Decimal._round_half_up(prec): 1 when the first dropped digit is 5..9
RoundHalfUp(int, prec) ==
    LET len == NumDigits(int)
        d   == (int \div Pow10(len - prec - 1)) % 10
    IN  IF d >= 5 THEN 1
        ELSE IF int % Pow10(len - prec) = 0 THEN 0 ELSE -1

\* Decimal._rescale(exp, ROUND_HALF_UP)
Rescale(v, exp) ==
    IF v.int = 0 THEN [sign |-> v.sign, int |-> 0, exp |-> exp]
    ELSE IF v.exp >= exp
    THEN [sign |-> v.sign, int |-> v.int * Pow10(v.exp - exp), exp |-> exp]
    ELSE LET digits0 == NumDigits(v.int) + v.exp - exp
             int     == IF digits0 < 0 THEN 1 ELSE v.int
             digits  == IF digits0 < 0 THEN 0 ELSE digits0
             changed == RoundHalfUp(int, digits)
             coeff   == IF digits = 0 THEN 0
                        ELSE int \div Pow10(NumDigits(int) - digits)
         IN  [sign |-> v.sign,
              int  |-> IF changed = 1 THEN coeff + 1 ELSE coeff,
              exp  |-> exp]

\* value.quantize(PyDecimal((0, (1,), -scale)), rounding=ROUND_HALF_UP)
Quantize(v, scale) == Rescale(v, -scale)

\* PyDecimal.__eq__: numeric comparison, -0 == 0
PyDecimalEq(v, w) ==
    LET e  == IF v.exp < w.exp THEN v.exp ELSE w.exp
        sv == (IF v.sign = 1 THEN -1 ELSE 1) * v.int * Pow10(v.exp - e)
        sw == (IF w.sign = 1 THEN -1 ELSE 1) * w.int * Pow10(w.exp - e)
    IN  sv = sw

(***************************************************************************)
(* Types.DecimalType.check_precision_scale: precision is a positive        *)
(* integer, scale a non-negative integer no larger than precision.         *)
(***************************************************************************)
CheckPrecisionScale(precision, scale) ==
    precision >= 1 /\ scale >= 0 /\ scale <= precision

(***************************************************************************)
(* Decimal.__init__                                                        *)
(***************************************************************************)
Blank == [_value |-> None, _precision |-> None, _scale |-> None]

\* the magnitude test off by one: precision < value.adjusted()
DecimalInitOffByOne(value, precision, scale) ==
    LET v == PyDecimal(value)
        p == IF IsNone(precision) THEN LenDigits(v) ELSE Get(precision)
        s == IF IsNone(scale) THEN -v.exp ELSE Get(scale)
    IN  IF ~CheckPrecisionScale(p, s)
        THEN [status |-> "ValueError", self |-> Blank]
        ELSE IF p < Adjusted(v)
        THEN [status |-> "ValueError", self |-> Blank]
        ELSE [status |-> "ok",
              self   |-> [_value     |-> Some(Quantize(v, s)),
                          _precision |-> Some(p),
                          _scale     |-> Some(s)]]

DecimalInit(value, precision, scale) ==
    LET v == PyDecimal(value)
        p == IF IsNone(precision) THEN LenDigits(v) ELSE Get(precision)
        s == IF IsNone(scale) THEN -v.exp ELSE Get(scale)
    IN  IF ~CheckPrecisionScale(p, s)
        THEN [status |-> "ValueError", self |-> Blank]
        ELSE IF p < Adjusted(v) + 1
        THEN [status |-> "ValueError", self |-> Blank]
        ELSE [status |-> "ok",
              self   |-> [_value     |-> Some(Quantize(v, s)),
                          _precision |-> Some(p),
                          _scale     |-> Some(s)]]

\* a constructed Decimal, as the caller holds it
DecimalObject(self) ==
    [class      |-> "Decimal",
     _value     |-> Get(self._value),
     _precision |-> Get(self._precision),
     _scale     |-> Get(self._scale)]

\* an equality that also compares precision
DecimalEqWithPrecision(self, other) ==
    IF other.class # "Decimal" THEN FALSE
    ELSE /\ self._scale = other._scale
         /\ self._precision = other._precision
         /\ PyDecimalEq(self._value, other._value)

\* Decimal.__eq__
DecimalEq(self, other) ==
    IF other.class # "Decimal" THEN FALSE
    ELSE self._scale = other._scale /\ PyDecimalEq(self._value, other._value)

\* a hash over the fields __eq__ compares
DecimalHashKeyOfEqFields(self) == <<self._value, 0, self._scale>>

\* Decimal.__hash__: the tuple that is hashed
DecimalHashKey(self) == <<self._value, self._precision, self._scale>>

\* equality of two hashed tuples, element by element with the elements' ==
DecimalHashKeyEq(k1, k2) ==
    PyDecimalEq(k1[1], k2[1]) /\ k1[2] = k2[2] /\ k1[3] = k2[3]

(***************************************************************************)
(* Inputs                                                                  *)
(***************************************************************************)
DigitStrings == UNION {[1..n -> Digits] : n \in 1..MaxDigits}

Literals ==
    {[neg |-> b, digits |-> ds, frac |-> f] :
        b \in BOOLEAN, ds \in DigitStrings, f \in 0..MaxDigits}

ValidLiterals == {l \in Literals : l.frac <= Len(l.digits)}

Precisions == {None} \cup {Some(n) : n \in 0..MaxPrecision}
Scales == {None} \cup {Some(n) : n \in 0..MaxScale}

NoCall == [op |-> "none"]
NoResult == [status |-> "pending", self |-> Blank]

Init ==
    /\ call = NoCall
    /\ o1 = None
    /\ o2 = None
    /\ ret = None
    /\ EMPTY_PARTITIONS = <<>>

\* a caller about to evaluate Decimal.of(value, precision, scale)
InitDecimal ==
    /\ call \in {[op |-> "Decimal.of", value |-> value,
                  precision |-> precision, scale |-> scale,
                  result |-> NoResult] :
                 value \in ValidLiterals, precision \in Precisions,
                 scale \in Scales}
    /\ o1 = None
    /\ o2 = None
    /\ ret = None
    /\ EMPTY_PARTITIONS = <<>>

\* Decimal.of(value, precision, scale)
DecimalOf ==
    /\ call.op = "Decimal.of"
    /\ call.result.status = "pending"
    /\ call' = [call EXCEPT !.result =
                    DecimalInit(call.value, call.precision, call.scale)]
    /\ UNCHANGED <<o1, o2, ret, EMPTY_PARTITIONS>>

NextDecimal == DecimalOf

SpecDecimal == InitDecimal /\ [][NextDecimal]_vars

(***************************************************************************)
(* Two objects a caller holds and compares: o1 is built first, then o2.    *)
(***************************************************************************)
EqDigitStrings == UNION {[1..n -> EqDigits] : n \in 1..MaxEqDigits}

EqLiterals ==
    {l \in [neg : BOOLEAN, digits : EqDigitStrings, frac : 0..MaxEqDigits] :
        l.frac <= Len(l.digits)}

\* objects that are not Decimals: the library's decimal and a string
NonDecimals ==
    {[class |-> "PyDecimal", _value |-> PyDecimal(l)] : l \in EqLiterals}
        \cup {[class |-> "str"]}

\* keep a newly built object in the first free variable
Keep(obj) ==
    /\ IF o1 = None
       THEN o1' = Some(obj) /\ UNCHANGED o2
       ELSE o2' = Some(obj) /\ UNCHANGED o1
    /\ UNCHANGED <<call, ret, EMPTY_PARTITIONS>>

\* x = Decimal.of(value, precision, scale), when it returns
NewDecimal(value, precision, scale) ==
    LET r == DecimalInit(value, precision, scale)
    IN  /\ r.status = "ok"
        /\ Keep(DecimalObject(r.self))

\* x = some other object
NewNonDecimal(obj) == Keep(obj)

\* the caller holds two objects at most
Free == o2 = None

NextDecimalPair ==
    \/ /\ Free
       /\ \E value \in EqLiterals, precision \in Precisions, scale \in Scales :
              NewDecimal(value, precision, scale)
    \/ /\ Free
       /\ \E obj \in NonDecimals : NewNonDecimal(obj)

SpecDecimalPair == Init /\ [][NextDecimalPair]_vars

(***************************************************************************)
(* Collaborators of the transforms.  A field-name argument is a bare       *)
(* string or a list of path segments.                                      *)
(***************************************************************************)
StrArg(name) == [kind |-> "str", s |-> name, segs |-> <<>>]
ListArg(segs) == [kind |-> "list", s |-> "", segs |-> segs]
\* a list whose only element is itself a list of segments
NestedArg(segs) == [kind |-> "nested", s |-> "", segs |-> segs]

\* NamedReference.field(path): a reference from a single name or from an
\* ordered sequence of names; anything else is malformed.
NamedReferenceField(fn) ==
    IF fn.kind = "str"
    THEN [status |-> "ok", ref |-> [field_name |-> <<fn.s>>]]
    ELSE IF fn.kind = "list"
    THEN [status |-> "ok", ref |-> [field_name |-> fn.segs]]
    ELSE [status |-> "InvalidArgument", ref |-> [field_name |-> <<>>]]

\* NamedReference: equality and hash by path
RefEq(r1, r2) == r1.field_name = r2.field_name
RefHashKey(r) == r.field_name

\* str(reference): the segments joined by "."
RECURSIVE JoinDot(_)
JoinDot(segs) ==
    IF Len(segs) = 0 THEN ""
    ELSE IF Len(segs) = 1 THEN segs[1]
    ELSE segs[1] \o "." \o JoinDot(Tail(segs))

RefStr(r) == JoinDot(r.field_name)

\* Literals.integer_literal(n): a literal expression, equal and hashed by
\* its value
IntegerLiteral(n) == [literal |-> n]
LiteralEq(l1, l2) == l1.literal = l2.literal
LiteralHashKey(l) == l.literal
LiteralStr(l) == ToString(l.literal)

\* [x == y for lists of references]
RefsEq(rs1, rs2) ==
    /\ Len(rs1) = Len(rs2)
    /\ \A i \in 1..Len(rs1) : RefEq(rs1[i], rs2[i])

(***************************************************************************)
(* Transforms: the factory                                                 *)
(***************************************************************************)
NoObject == [class |-> "NoneType"]
Failed(status) == [status |-> status, obj |-> NoObject]
Made(obj) == [status |-> "ok", obj |-> obj]

\* field_name = [field_name] without the isinstance test
WrapFieldName(field_name) ==
    IF field_name.kind = "str" THEN ListArg(<<field_name.s>>)
    ELSE NestedArg(field_name.segs)

\* if isinstance(field_name, str): field_name = [field_name]
NormalizeFieldName(field_name) ==
    IF field_name.kind = "str" THEN ListArg(<<field_name.s>>)
    ELSE field_name

\* the body shared by identity, year, month, day and hour
SingleField(class, field_name) ==
    LET r == NamedReferenceField(NormalizeFieldName(field_name))
    IN  IF r.status # "ok" THEN Failed(r.status)
        ELSE Made([class |-> class, ref |-> r.ref])

Identity(field_name) == SingleField("IdentityTransform", field_name)
Year(field_name) == SingleField("YearTransform", field_name)
Month(field_name) == SingleField("MonthTransform", field_name)
Day(field_name) == SingleField("DayTransform", field_name)
Hour(field_name) == SingleField("HourTransform", field_name)

\* [NamedReference.field(fn) for fn in field_names]
FieldsOf(field_names) ==
    [i \in 1..Len(field_names) |-> NamedReferenceField(field_names[i])]

AllOk(rs) == \A i \in 1..Len(rs) : rs[i].status = "ok"
RefsOf(rs) == [i \in 1..Len(rs) |-> rs[i].ref]

Bucket(num_buckets, field_names) ==
    LET rs == FieldsOf(field_names)
    IN  IF ~AllOk(rs) THEN Failed("InvalidArgument")
        ELSE Made([class        |-> "BucketTransform",
                   _num_buckets |-> IntegerLiteral(num_buckets),
                   fields       |-> RefsOf(rs)])

ListOf(field_names, assignments) ==
    LET a  == IF IsNone(assignments) THEN <<>> ELSE Get(assignments)
        rs == FieldsOf(field_names)
    IN  IF ~AllOk(rs) THEN Failed("InvalidArgument")
        ELSE Made([class       |-> "ListTransform",
                   fields      |-> RefsOf(rs),
                   assignments |-> a])

Range(field_name, assignments) ==
    LET a == IF IsNone(assignments) THEN <<>> ELSE Get(assignments)
        r == NamedReferenceField(field_name)
    IN  IF r.status # "ok" THEN Failed(r.status)
        ELSE Made([class       |-> "RangeTransform",
                   field       |-> r.ref,
                   assignments |-> a])

Truncate(width, field_name) ==
    LET r == NamedReferenceField(NormalizeFieldName(field_name))
    IN  IF r.status # "ok" THEN Failed(r.status)
        ELSE Made([class  |-> "TruncateTransform",
                   _width |-> IntegerLiteral(width),
                   field  |-> r.ref])

Apply(name, arguments) ==
    Made([class |-> "ApplyTransform", _name |-> name, _arguments |-> arguments])

(***************************************************************************)
(* Transforms: the variants' methods                                       *)
(***************************************************************************)
SingleFieldClasses ==
    {"IdentityTransform", "YearTransform", "MonthTransform", "DayTransform",
     "HourTransform"}

\* [name for field in fields for name in field.field_name()]
RECURSIVE Flatten(_)
Flatten(fields) ==
    IF fields = <<>> THEN <<>>
    ELSE Head(fields).field_name \o Flatten(Tail(fields))

\* BucketTransform.field_names
BucketFieldNames(t) == Flatten(t.fields)

Name(t) ==
    CASE t.class = "IdentityTransform" -> "identity"
      [] t.class = "YearTransform"     -> "year"
      [] t.class = "MonthTransform"    -> "month"
      [] t.class = "DayTransform"      -> "day"
      [] t.class = "HourTransform"     -> "hour"
      [] t.class = "BucketTransform"   -> "bucket"
      [] t.class = "TruncateTransform" -> "truncate"
      [] t.class = "ListTransform"     -> "list"
      [] t.class = "RangeTransform"    -> "range"
      [] t.class = "ApplyTransform"    -> t._name

Arguments(t) ==
    CASE t.class \in SingleFieldClasses  -> <<t.ref>>
      [] t.class = "BucketTransform"   ->
             <<LiteralStr(t._num_buckets)>> \o Flatten(t.fields)
      [] t.class = "TruncateTransform" -> <<t._width, t.field>>
      [] t.class = "ListTransform"     -> t.fields
      [] t.class = "RangeTransform"    -> <<t.field>>
      [] t.class = "ApplyTransform"    -> t._arguments

\* Transform.children, overridden by year, month, day and hour
Children(t) ==
    IF t.class \in {"YearTransform", "MonthTransform", "DayTransform",
                    "HourTransform"}
    THEN <<t.ref>>
    ELSE Arguments(t)

\* the attributes __init__ set on the instance
InstanceAttributes(t) == DOMAIN t \ {"class"}

\* t.assignments(): the instance attribute, when there is one, hides the
\* method of the class, and a list is not callable
AssignmentsCall(t) ==
    IF "assignments" \in InstanceAttributes(t)
    THEN [status |-> "TypeError", value |-> <<>>, shared |-> FALSE]
    ELSE [status |-> "ok", value |-> EMPTY_PARTITIONS, shared |-> TRUE]

\* equality of the argument sequences as sets
ApplyEqUnordered(t, other) ==
    /\ other.class = "ApplyTransform"
    /\ Name(t) = Name(other)
    /\ {Arguments(t)[i] : i \in 1..Len(Arguments(t))} =
           {Arguments(other)[i] : i \in 1..Len(Arguments(other))}

\* ApplyTransform.__eq__
ApplyEq(t, other) ==
    /\ other.class = "ApplyTransform"
    /\ Name(t) = Name(other)
    /\ Arguments(t) = Arguments(other)

\* BucketTransform.__eq__
BucketEq(t, other) ==
    /\ other.class = "BucketTransform"
    /\ LiteralEq(t._num_buckets, other._num_buckets)
    /\ BucketFieldNames(t) = BucketFieldNames(other)

\* __eq__ of each variant
Eq(t, other) ==
    CASE t.class \in SingleFieldClasses ->
             other.class = t.class /\ RefEq(t.ref, other.ref)
      [] t.class = "BucketTransform"   -> BucketEq(t, other)
      [] t.class = "TruncateTransform" ->
             /\ other.class = "TruncateTransform"
             /\ LiteralEq(t._width, other._width)
             /\ RefEq(t.field, other.field)
      [] t.class = "ListTransform"     ->
             other.class = "ListTransform" /\ RefsEq(t.fields, other.fields)
      [] t.class = "RangeTransform"    ->
             other.class = "RangeTransform" /\ RefEq(t.field, other.field)
      [] t.class = "ApplyTransform"    -> ApplyEq(t, other)

\* __hash__ of each variant: the value that is hashed
HashKey(t) ==
    CASE t.class \in SingleFieldClasses  -> RefHashKey(t.ref)
      [] t.class = "BucketTransform"   ->
             <<LiteralHashKey(t._num_buckets)>> \o
                 [i \in 1..Len(t.fields) |-> RefStr(t.fields[i])]
      [] t.class = "TruncateTransform" ->
             <<LiteralHashKey(t._width), RefHashKey(t.field)>>
      [] t.class = "ListTransform"     ->
             [i \in 1..Len(t.fields) |-> RefHashKey(t.fields[i])]
      [] t.class = "RangeTransform"    -> RefHashKey(t.field)
      [] t.class = "ApplyTransform"    -> <<Name(t), Arguments(t)>>

(***************************************************************************)
(* Callers of the factory: two transforms are built and kept with the      *)
(* arguments they were built from, and assignments() is called on them.    *)
(***************************************************************************)
Paths == UNION {[1..n -> Names] : n \in 1..MaxSegs}

FieldNameArgs == {StrArg(n) : n \in Names} \cup {ListArg(p) : p \in Paths}

SegsOf(fn) == IF fn.kind = "str" THEN 1 ELSE Len(fn.segs)

RECURSIVE TotalSegs(_)
TotalSegs(fns) ==
    IF fns = <<>> THEN 0 ELSE SegsOf(Head(fns)) + TotalSegs(Tail(fns))

FieldNameLists ==
    {fns \in UNION {[1..n -> FieldNameArgs] : n \in 0..MaxSegs} :
        TotalSegs(fns) <= MaxSegs}

AssignmentArgs == {None} \cup {Some(ps) : ps \in PartitionLists}

ArgumentLists == UNION {[1..n -> Expressions] : n \in 0..MaxArgs}

\* the record of one factory call
Built(factory, num, field_names, assignments, name, arguments, result) ==
    [factory |-> factory, num |-> num, field_names |-> field_names,
     assignments |-> assignments, name |-> name, arguments |-> arguments,
     result |-> result]

NewIdentity(fn) ==
    Keep(Built("identity", 0, <<fn>>, None, "", <<>>, Identity(fn)))
NewYear(fn) ==
    Keep(Built("year", 0, <<fn>>, None, "", <<>>, Year(fn)))
NewMonth(fn) ==
    Keep(Built("month", 0, <<fn>>, None, "", <<>>, Month(fn)))
NewDay(fn) ==
    Keep(Built("day", 0, <<fn>>, None, "", <<>>, Day(fn)))
NewHour(fn) ==
    Keep(Built("hour", 0, <<fn>>, None, "", <<>>, Hour(fn)))
NewBucket(n, fns) ==
    Keep(Built("bucket", n, fns, None, "", <<>>, Bucket(n, fns)))
NewList(fns, a) ==
    Keep(Built("list", 0, fns, a, "", <<>>, ListOf(fns, a)))
NewRange(fn, a) ==
    Keep(Built("range", 0, <<fn>>, a, "", <<>>, Range(fn, a)))
NewTruncate(w, fn) ==
    Keep(Built("truncate", w, <<fn>>, None, "", <<>>, Truncate(w, fn)))
NewApply(name, args) ==
    Keep(Built("apply", 0, <<>>, None, name, args, Apply(name, args)))

\* t.assignments() on the first or the second transform
CallAssignments(held, slot) ==
    /\ held # None
    /\ Get(held).result.status = "ok"
    /\ ret' = Some([slot |-> slot,
                    result |-> AssignmentsCall(Get(held).result.obj)])
    /\ UNCHANGED <<call, o1, o2, EMPTY_PARTITIONS>>

NextTransforms ==
    \/ Free /\ \E fn \in FieldNameArgs : NewIdentity(fn)
    \/ Free /\ \E fn \in FieldNameArgs : NewYear(fn)
    \/ Free /\ \E fn \in FieldNameArgs : NewMonth(fn)
    \/ Free /\ \E fn \in FieldNameArgs : NewDay(fn)
    \/ Free /\ \E fn \in FieldNameArgs : NewHour(fn)
    \/ Free /\ \E n \in BucketCounts, fns \in FieldNameLists : NewBucket(n, fns)
    \/ Free /\ \E fns \in FieldNameLists, a \in AssignmentArgs : NewList(fns, a)
    \/ Free /\ \E fn \in FieldNameArgs, a \in AssignmentArgs : NewRange(fn, a)
    \/ Free /\ \E w \in Widths, fn \in FieldNameArgs : NewTruncate(w, fn)
    \/ Free /\ \E name \in FunctionNames, args \in ArgumentLists :
                   NewApply(name, args)
    \/ CallAssignments(o1, 1)
    \/ CallAssignments(o2, 2)

SpecTransforms == Init /\ [][NextTransforms]_vars

\* a caller appends a partition to the list the last assignments() call
\* returned: that list is Partitions.EMPTY_PARTITIONS itself
AppendToReturned(p) ==
    /\ ret # None
    /\ Get(ret).result.status = "ok"
    /\ Get(ret).result.shared
    /\ Len(EMPTY_PARTITIONS) < MaxAppends
    /\ EMPTY_PARTITIONS' = Append(EMPTY_PARTITIONS, p)
    /\ ret' = Some([Get(ret) EXCEPT !.result.value = Append(EMPTY_PARTITIONS, p)])
    /\ UNCHANGED <<call, o1, o2>>

NextAliasing ==
    \/ NextTransforms
    \/ \E p \in AppendedPartitions : AppendToReturned(p)

SpecAliasing == Init /\ [][NextAliasing]_vars

(***************************************************************************)
(* Properties of Decimal.of, stated on the literal and on the stored       *)
(* fields, without the library's adjusted() / quantize().                  *)
(***************************************************************************)
Returned == call.op = "Decimal.of" /\ call.result.status = "ok"
Raised == call.op = "Decimal.of" /\ call.result.status = "ValueError"

Stored == Get(call.result.self._value)
StoredPrecision == Get(call.result.self._precision)
StoredScale == Get(call.result.self._scale)

\* the coefficient the literal denotes
Coefficient(lit) == IntOfDigits(lit.digits)

\* digits of the integer part of c * 10^-frac (none when it is zero)
IntegerDigits(c, frac) ==
    LET ip == c \div Pow10(frac)
    IN  IF ip = 0 THEN 0 ELSE NumDigits(ip)

\* c * 10^-frac rounded half-up to scale fractional digits, as an integer
\* count of 10^-scale
HalfUp(c, frac, scale) ==
    IF frac <= scale THEN c * Pow10(scale - frac)
    ELSE (2 * c + Pow10(frac - scale)) \div (2 * Pow10(frac - scale))

\* C1: every constructed Decimal has precision >= scale and precision >=
\* the number of integer-part digits of its stored, rounded value.
C1_PrecisionCoversStored ==
    Returned =>
        /\ StoredPrecision >= StoredScale
        /\ StoredPrecision >= IntegerDigits(Stored.int, -Stored.exp)

\* C2: Decimal.of raises whenever the explicit precision is smaller than
\* the number of integer-part digits of the value, and a call that raised
\* left none of _value, _precision, _scale assigned.
C2_MagnitudeRejectedAtomically ==
    call.op = "Decimal.of" /\ call.result.status # "pending" =>
        /\ (/\ ~IsNone(call.precision)
            /\ Get(call.precision) <
                   IntegerDigits(Coefficient(call.value), call.value.frac))
              => Raised
        /\ Raised => call.result.self = Blank

\* C2 witness: precision and scale pass check_precision_scale, the value
\* has more integer digits than precision, and the call raised.
C2_Witness ==
    /\ Raised
    /\ ~IsNone(call.precision) /\ ~IsNone(call.scale)
    /\ Get(call.precision) >= 1
    /\ Get(call.scale) >= 0 /\ Get(call.scale) <= Get(call.precision)
    /\ Get(call.precision) <
           IntegerDigits(Coefficient(call.value), call.value.frac)

\* C3: the stored value has exactly scale fractional digits and is the
\* input rounded half-up (ties away from zero) to scale digits; the stored
\* precision and scale are the requested ones.
C3_StoredIsHalfUpRounded ==
    Returned =>
        /\ Stored.exp = -StoredScale
        /\ Stored.int = HalfUp(Coefficient(call.value), call.value.frac,
                               StoredScale)
        /\ Stored.sign = (IF call.value.neg THEN 1 ELSE 0)
        /\ ~IsNone(call.precision) => StoredPrecision = Get(call.precision)
        /\ ~IsNone(call.scale) => StoredScale = Get(call.scale)

\* C3 witness: a negative input exactly half way between two values of
\* the requested scale, stored as the one further from zero.
C3_Witness ==
    /\ Returned
    /\ ~IsNone(call.scale) /\ ~IsNone(call.precision)
    /\ call.value.neg
    /\ call.value.frac > StoredScale
    /\ LET unit == Pow10(call.value.frac - StoredScale)
           c    == Coefficient(call.value)
       IN  /\ 2 * (c % unit) = unit
           /\ Stored.int = (c \div unit) + 1

\* C4: an omitted precision is the number of significant digits of the
\* coefficient, an omitted scale is the number of digits after the point,
\* and with the scale omitted the stored value is the input unrounded.
C4_DerivedPrecisionScale ==
    Returned =>
        LET c == Coefficient(call.value)
        IN  /\ IsNone(call.precision) =>
                  \/ c = 0 /\ StoredPrecision = 1
                  \/ /\ c > 0
                     /\ Pow10(StoredPrecision - 1) <= c
                     /\ c < Pow10(StoredPrecision)
            /\ IsNone(call.scale) =>
                  /\ StoredScale = call.value.frac
                  /\ Stored.int = c
                  /\ Stored.exp = -call.value.frac
                  /\ Stored.sign = (IF call.value.neg THEN 1 ELSE 0)

\* C4 witness: both omitted, a literal with a leading zero and digits on
\* both sides of the point (as 123.45 has).
C4_Witness ==
    /\ Returned
    /\ IsNone(call.precision) /\ IsNone(call.scale)
    /\ call.value.frac >= 1
    /\ StoredPrecision > StoredScale
    /\ StoredPrecision < Len(call.value.digits)

(***************************************************************************)
(* Properties of Decimal.__eq__ and Decimal.__hash__ on the two objects.   *)
(***************************************************************************)
Both == o1 # None /\ o2 # None
BothDecimal == Both /\ Get(o1).class = "Decimal" /\ Get(o2).class = "Decimal"

\* the stored value as a signed count of 10^-scale (no negative zero)
Units(d) == (IF d._value.sign = 1 THEN -1 ELSE 1) * d._value.int

\* C5: two Decimals are equal iff they have the same scale and the same
\* stored value, whatever their precisions; a Decimal never equals an
\* object that is not a Decimal.
C5_EqualIffScaleAndValue ==
    Both /\ Get(o1).class = "Decimal" =>
        IF Get(o2).class = "Decimal"
        THEN DecimalEq(Get(o1), Get(o2)) <=>
                 /\ Get(o1)._scale = Get(o2)._scale
                 /\ Get(o1)._value.exp = Get(o2)._value.exp
                 /\ Units(Get(o1)) = Units(Get(o2))
        ELSE ~DecimalEq(Get(o1), Get(o2))

\* C5 witness: equal Decimals of different precision.
C5_Witness ==
    /\ BothDecimal
    /\ DecimalEq(Get(o1), Get(o2))
    /\ Get(o1)._precision # Get(o2)._precision

\* C6: the hashed tuple is (value, precision, scale): two hashed tuples
\* agree iff value, precision and scale agree, so equal Decimals of
\* different precision have different hashed tuples.
C6_HashKeyIncludesPrecision ==
    BothDecimal =>
        LET a == Get(o1)
            b == Get(o2)
        IN  /\ DecimalHashKeyEq(DecimalHashKey(a), DecimalHashKey(b)) <=>
                  /\ Units(a) = Units(b)
                  /\ a._value.exp = b._value.exp
                  /\ a._precision = b._precision
                  /\ a._scale = b._scale
            /\ (DecimalEq(a, b) /\ a._precision # b._precision) =>
                  ~DecimalHashKeyEq(DecimalHashKey(a), DecimalHashKey(b))

\* C6 witness: equal Decimals whose hashed tuples differ.
C6_Witness ==
    /\ BothDecimal
    /\ DecimalEq(Get(o1), Get(o2))
    /\ ~DecimalHashKeyEq(DecimalHashKey(Get(o1)), DecimalHashKey(Get(o2)))

(***************************************************************************)
(* Properties of the transforms, on the two transforms the caller built.   *)
(***************************************************************************)
T1 == Get(o1).result.obj
T2 == Get(o2).result.obj
BothBuilt == Both /\ "factory" \in DOMAIN Get(o1) /\ "factory" \in DOMAIN Get(o2)
BothOk == /\ BothBuilt
          /\ Get(o1).result.status = "ok"
          /\ Get(o2).result.status = "ok"

\* the path a field-name argument denotes
PathOf(fn) == IF fn.kind = "str" THEN <<fn.s>> ELSE fn.segs
PathsOf(fns) == [i \in 1..Len(fns) |-> PathOf(fns[i])]

\* the paths of the references a transform holds
ReferencedPaths(t) ==
    CASE t.class \in SingleFieldClasses -> <<t.ref.field_name>>
      [] t.class \in {"BucketTransform", "ListTransform"} ->
             [i \in 1..Len(t.fields) |-> t.fields[i].field_name]
      [] t.class \in {"TruncateTransform", "RangeTransform"} ->
             <<t.field.field_name>>
      [] OTHER -> <<>>

C8_BucketEqAndHashSameKey ==
    (/\ BothOk
     /\ T1.class = "BucketTransform" /\ T2.class = "BucketTransform"
     /\ LiteralEq(T1._num_buckets, T2._num_buckets)
     /\ BucketFieldNames(T1) = BucketFieldNames(T2))
    => Eq(T1, T2) /\ HashKey(T1) = HashKey(T2)

\* the transform assignments() was last called on
Called == IF Get(ret).slot = 1 THEN Get(o1) ELSE Get(o2)

\* C9: assignments() of a list or range transform returns the supplied
\* partitions in order, or the empty sequence when none were supplied;
\* two such transforms over the same fields are equal whatever their
\* assignments.
C9_AssignmentsReturned ==
    /\ (/\ ret # None
        /\ Called.factory \in {"list", "range"})
       => /\ Get(ret).result.status = "ok"
          /\ Get(ret).result.value =
                 (IF IsNone(Called.assignments) THEN <<>>
                  ELSE Get(Called.assignments))
    /\ (/\ BothOk
        /\ Get(o1).factory = Get(o2).factory
        /\ Get(o1).factory \in {"list", "range"}
        /\ ReferencedPaths(T1) = ReferencedPaths(T2))
       => Eq(T1, T2)

\* C10: arguments() of an apply transform are the arguments in call
\* order; two apply transforms are equal, and their hashed values agree,
\* exactly when the names are equal and the arguments are equal position
\* by position.
C10_ApplyOrdered ==
    (/\ BothOk
     /\ Get(o1).factory = "apply" /\ Get(o2).factory = "apply")
    => LET same == /\ Get(o1).name = Get(o2).name
                   /\ Len(Get(o1).arguments) = Len(Get(o2).arguments)
                   /\ \A i \in 1..Len(Get(o1).arguments) :
                          Get(o1).arguments[i] = Get(o2).arguments[i]
       IN  /\ Arguments(T1) = Get(o1).arguments
           /\ Arguments(T2) = Get(o2).arguments
           /\ Eq(T1, T2) <=> same
           /\ (HashKey(T1) = HashKey(T2)) <=> same

\* C10 witness: apply("f", "1", "x") and apply("f", "x", "1") differ.
C10_Witness ==
    /\ BothOk
    /\ Get(o1).factory = "apply" /\ Get(o2).factory = "apply"
    /\ Get(o1).name = "f" /\ Get(o2).name = "f"
    /\ Get(o1).arguments = <<"1", "x">>
    /\ Get(o2).arguments = <<"x", "1">>
    /\ ~Eq(T1, T2)
    /\ HashKey(T1) # HashKey(T2)

\* the transforms the caller holds that were built
HeldTransforms ==
    {h \in {o1, o2} :
        /\ h # None
        /\ "factory" \in DOMAIN Get(h)
        /\ Get(h).result.status = "ok"}

\* C11: in every reachable state, assignments() of a transform that is not
\* a list or range transform returns the empty sequence, also after callers
\* appended to sequences that assignments() returned earlier; and children()
\* returns what arguments() returns, for every variant.
C11_DefaultAssignmentsStayEmpty ==
    \A h \in HeldTransforms :
        LET t == Get(h).result.obj
        IN  /\ Get(h).factory \notin {"list", "range"} =>
                  /\ AssignmentsCall(t).status = "ok"
                  /\ AssignmentsCall(t).value = <<>>
            /\ Children(t) = Arguments(t)

\* the second half of C11 alone
ChildrenAreArguments ==
    \A h \in HeldTransforms :
        Children(Get(h).result.obj) = Arguments(Get(h).result.obj)

====
